---- MODULE Spec2Model ----
(***************************************************************************)
(* Model of Multiset<K> (src/multimap.h) with K = int: a plain, unbalanced *)
(* counted-key binary search tree and the occurrence counter `size`.       *)
(*                                                                         *)
(* A Node* is modelled as a value: NULL is the empty tuple, a node is the  *)
(* tuple <<key, count, left, right>> of its fields, children being owned   *)
(* subtrees.  The private overloads that take a Node* are the operators    *)
(* named ...Node; the public member functions are the actions.  Each       *)
(* action records the call made (op, arg) and what it gave back (result).  *)
(***************************************************************************)
EXTENDS Integers, Sequences, FiniteSets, TLC

\* ---- bounds --------------------------------------------------------------
\* keys inserted are 1..MaxKey
MaxKey == 3
\* Insert is offered while the tree holds fewer than MaxOcc occurrences
MaxOcc == 4
\* width in bits of the model's size_t (the arithmetic of `size` is modulo
\* 2^SizeBits, as unsigned arithmetic is)
SizeBits == 3

Keys == 1..MaxKey
\* keys used in queries and in Remove: one below and one above every key
QueryKeys == 0..(MaxKey + 1)
SizeMod == 2^SizeBits

\* root and size are the data members; op, arg and result record the public
\* call made last; trip records an Insert of an absent key while that call is
\* the last one made, or the last but one with the Remove of the same key
\* following it, together with the object as it stood before the Insert
VARIABLES root, size, op, arg, result, trip
vars == <<root, size, op, arg, result, trip>>

\* ---- Node ----------------------------------------------------------------
NULL == <<>>
Node(k, c, l, r) == <<k, c, l, r>>
\* a constructor that starts the count at 0
NewNode_CountZero(k) == Node(k, 0, NULL, NULL)

\* Node(const K& key) : key(key), count(1), left(nullptr), right(nullptr)
NewNode(k) == Node(k, 1, NULL, NULL)
Key(n) == n[1]
Cnt(n) == n[2]
Left(n) == n[3]
Right(n) == n[4]

\* ---- what a call gives back ----------------------------------------------
Returned(v) == [thrown |-> FALSE, what |-> "", value |-> v]
Thrown(msg) == [thrown |-> TRUE, what |-> msg, value |-> 0]

\* ---- private overloads ---------------------------------------------------
RECURSIVE InsertNode(_, _)
InsertNode(node, key) ==
  IF node = NULL THEN NewNode(key)
  ELSE IF key < Key(node)
    THEN Node(Key(node), Cnt(node), InsertNode(Left(node), key), Right(node))
  ELSE IF key > Key(node)
    THEN Node(Key(node), Cnt(node), Left(node), InsertNode(Right(node), key))
  ELSE Node(Key(node), Cnt(node) + 1, Left(node), Right(node))

RECURSIVE ContainsNode(_, _)
ContainsNode(node, key) ==
  IF node = NULL THEN NULL
  ELSE IF key < Key(node) THEN ContainsNode(Left(node), key)
  ELSE IF key > Key(node) THEN ContainsNode(Right(node), key)
  ELSE node

RECURSIVE MaxNode(_)
MaxNode(node) ==
  IF Right(node) # NULL THEN MaxNode(Right(node)) ELSE node

\* Min(Node*) without the descent
MinNode_NoDescent(node) == node

RECURSIVE MinNode(_)
MinNode(node) ==
  IF Left(node) # NULL THEN MinNode(Left(node)) ELSE node

\* Remove(Node*, const K&) that decrements the count of a node whatever it is
\* (count > 0 for count > 1), so that a node of count 0 stays in the tree
RECURSIVE RemoveNode_KeepsZero(_, _)
RemoveNode_KeepsZero(node, key) ==
  IF node = NULL THEN [node |-> NULL, thrown |-> TRUE]
  ELSE IF key < Key(node) THEN
    LET sub == RemoveNode_KeepsZero(Left(node), key) IN
      IF sub.thrown THEN [node |-> node, thrown |-> TRUE]
      ELSE [node |-> Node(Key(node), Cnt(node), sub.node, Right(node)),
            thrown |-> FALSE]
  ELSE IF key > Key(node) THEN
    LET sub == RemoveNode_KeepsZero(Right(node), key) IN
      IF sub.thrown THEN [node |-> node, thrown |-> TRUE]
      ELSE [node |-> Node(Key(node), Cnt(node), Left(node), sub.node),
            thrown |-> FALSE]
  ELSE IF Cnt(node) > 0 THEN
    [node |-> Node(Key(node), Cnt(node) - 1, Left(node), Right(node)),
     thrown |-> FALSE]
  ELSE IF Left(node) = NULL THEN [node |-> Right(node), thrown |-> FALSE]
  ELSE IF Right(node) = NULL THEN [node |-> Left(node), thrown |-> FALSE]
  ELSE
    LET min == MinNode(Right(node))
        sub == RemoveNode_KeepsZero(Right(node), Key(min))
    IN  [node |-> Node(Key(min), Cnt(min), Left(node), sub.node),
         thrown |-> sub.thrown]

\* Remove(Node*, const K&) changes the nodes in place and may throw.  The
\* value is [node |-> the subtree standing at this place afterwards,
\* thrown |-> whether "No key" was thrown]; after a throw, node is the
\* subtree as the assignments made before the throw left it.
RECURSIVE RemoveNode(_, _)
RemoveNode(node, key) ==
  IF node = NULL THEN [node |-> NULL, thrown |-> TRUE]
  ELSE IF key < Key(node) THEN
    LET sub == RemoveNode(Left(node), key) IN
      IF sub.thrown THEN [node |-> node, thrown |-> TRUE]
      ELSE [node |-> Node(Key(node), Cnt(node), sub.node, Right(node)),
            thrown |-> FALSE]
  ELSE IF key > Key(node) THEN
    LET sub == RemoveNode(Right(node), key) IN
      IF sub.thrown THEN [node |-> node, thrown |-> TRUE]
      ELSE [node |-> Node(Key(node), Cnt(node), Left(node), sub.node),
            thrown |-> FALSE]
  ELSE IF Cnt(node) > 1 THEN
    [node |-> Node(Key(node), Cnt(node) - 1, Left(node), Right(node)),
     thrown |-> FALSE]
  ELSE IF Left(node) = NULL THEN [node |-> Right(node), thrown |-> FALSE]
  ELSE IF Right(node) = NULL THEN [node |-> Left(node), thrown |-> FALSE]
  ELSE
    LET min == MinNode(Right(node))
        sub == RemoveNode(Right(node), Key(min))
    IN  [node |-> Node(Key(min), Cnt(min), Left(node), sub.node),
         thrown |-> sub.thrown]

\* Floor(Node*, const K&) without the fall back to the node itself
RECURSIVE FloorNode_NoFallback(_, _)
FloorNode_NoFallback(node, key) ==
  IF node = NULL THEN NULL
  ELSE IF key = Key(node) THEN node
  ELSE IF key < Key(node) THEN FloorNode_NoFallback(Left(node), key)
  ELSE FloorNode_NoFallback(Right(node), key)

\* Floor(Node*, const K&)
RECURSIVE FloorNode(_, _)
FloorNode(node, key) ==
  IF node = NULL THEN NULL
  ELSE IF key = Key(node) THEN node
  ELSE IF key < Key(node) THEN FloorNode(Left(node), key)
  ELSE LET floor == FloorNode(Right(node), key) IN
         IF floor # NULL THEN floor ELSE node

\* Ceil(Node*, const K&)
RECURSIVE CeilNode(_, _)
CeilNode(node, key) ==
  IF node = NULL THEN NULL
  ELSE IF key = Key(node) THEN node
  ELSE IF key > Key(node) THEN CeilNode(Right(node), key)
  ELSE LET ceil == CeilNode(Left(node), key) IN
         IF ceil # NULL THEN ceil ELSE node

\* ---- public member functions: const ones, on the current object --------
Size == size
Empty == size = 0
Contains(key) == ContainsNode(root, key) # NULL

Count(key) ==
  LET node == ContainsNode(root, key) IN
    IF node = NULL THEN Thrown("No key") ELSE Returned(Cnt(node))

Floor(key) ==
  IF root = NULL THEN Thrown("Empty multiset")
  ELSE LET floor_node == FloorNode(root, key) IN
         IF floor_node = NULL THEN Thrown("No floor exists for key")
         ELSE Returned(Key(floor_node))

\* The body of the public Ceil is the body of the private overload: it reads
\* a `node` it does not declare, returns 0 where the private one returns
\* nullptr, and uses the Node* the private overload gives as the key.  It is
\* modelled as written, with node standing for root and a Node* result
\* standing for that node's key (nullptr for 0).  It has no throw.
PtrAsKey(p) == IF p = NULL THEN 0 ELSE Key(p)
Ceil(key) ==
  LET node == root IN
    IF node = NULL THEN Returned(0)
    ELSE IF key = Key(node) THEN Returned(Key(node))
    ELSE IF key > Key(node) THEN Returned(PtrAsKey(CeilNode(Right(node), key)))
    ELSE LET ceil == PtrAsKey(CeilNode(Left(node), key)) IN
           Returned(IF ceil # 0 THEN ceil ELSE Key(node))

Max ==
  IF root = NULL THEN Thrown("Empty multiset") ELSE Returned(Key(MaxNode(root)))

Min ==
  IF root = NULL THEN Thrown("Empty multiset") ELSE Returned(Key(MinNode(root)))

\* number of occurrences the nodes of a tree hold
RECURSIVE Occurrences(_)
Occurrences(node) ==
  IF node = NULL THEN 0
  ELSE Cnt(node) + Occurrences(Left(node)) + Occurrences(Right(node))

\* ---- the record of an Insert and the Remove that follows it --------------
NoTrip == [stage |-> "none", key |-> 0, root |-> NULL, size |-> 0]
TripOnInsert(key) ==
  IF Contains(key) THEN NoTrip
  ELSE [stage |-> "inserted", key |-> key, root |-> root, size |-> size]
TripOnRemove(key) ==
  IF trip.stage = "inserted" /\ trip.key = key
    THEN [trip EXCEPT !.stage = "removed"]
    ELSE NoTrip

\* ---- public member functions: the calls ----------------------------------
Init ==
  /\ root = NULL
  /\ size = 0
  /\ op = "Multiset" /\ arg = 0 /\ result = Returned(0)
  /\ trip = NoTrip

Insert ==
  \E key \in Keys :
    /\ Occurrences(root) < MaxOcc
    /\ root' = InsertNode(root, key)
    /\ size' = (size + 1) % SizeMod
    /\ op' = "Insert" /\ arg' = key /\ result' = Returned(0)
    /\ trip' = TripOnInsert(key)

\* Remove that counts the occurrence down before it looks the key up
Remove_CountsFirst ==
  \E key \in QueryKeys :
    /\ op' = "Remove" /\ arg' = key
    /\ trip' = TripOnRemove(key)
    /\ size' = (size - 1) % SizeMod
    /\ IF ~Contains(key)
         THEN result' = Thrown("No key") /\ UNCHANGED root
         ELSE LET r == RemoveNode(root, key) IN
                /\ result' = IF r.thrown THEN Thrown("No key") ELSE Returned(0)
                /\ root' = r.node

Remove ==
  \E key \in QueryKeys :
    /\ op' = "Remove" /\ arg' = key
    /\ trip' = TripOnRemove(key)
    /\ IF ~Contains(key)
         THEN /\ result' = Thrown("No key")
              /\ UNCHANGED <<root, size>>
         ELSE LET r == RemoveNode(root, key) IN
                IF r.thrown
                  THEN /\ result' = Thrown("No key")
                       /\ root' = r.node
                       /\ UNCHANGED size
                  ELSE /\ result' = Returned(0)
                       /\ root' = r.node
                       /\ size' = (size - 1) % SizeMod

CallContains ==
  \E key \in QueryKeys :
    /\ op' = "Contains" /\ arg' = key /\ result' = Returned(Contains(key))
    /\ UNCHANGED <<root, size>> /\ trip' = NoTrip

CallCount ==
  \E key \in QueryKeys :
    /\ op' = "Count" /\ arg' = key /\ result' = Count(key)
    /\ UNCHANGED <<root, size>> /\ trip' = NoTrip

CallFloor ==
  \E key \in QueryKeys :
    /\ op' = "Floor" /\ arg' = key /\ result' = Floor(key)
    /\ UNCHANGED <<root, size>> /\ trip' = NoTrip

CallCeil ==
  \E key \in QueryKeys :
    /\ op' = "Ceil" /\ arg' = key /\ result' = Ceil(key)
    /\ UNCHANGED <<root, size>> /\ trip' = NoTrip

CallMax ==
  /\ op' = "Max" /\ arg' = 0 /\ result' = Max
  /\ UNCHANGED <<root, size>> /\ trip' = NoTrip

CallMin ==
  /\ op' = "Min" /\ arg' = 0 /\ result' = Min
  /\ UNCHANGED <<root, size>> /\ trip' = NoTrip

Next ==
  \/ Insert
  \/ Remove
  \/ CallContains
  \/ CallCount
  \/ CallFloor
  \/ CallCeil
  \/ CallMax
  \/ CallMin

Spec == Init /\ [][Next]_vars

\* ---- what the claims speak of --------------------------------------------
\* the keys k with Contains(k) true
S == {k \in QueryKeys : Contains(k)}

RECURSIVE SumOfCounts(_)
SumOfCounts(ks) ==
  IF ks = {} THEN 0
  ELSE LET k == CHOOSE x \in ks : TRUE IN
         Count(k).value + SumOfCounts(ks \ {k})

Greatest(ks) == CHOOSE k \in ks : \A j \in ks : j <= k
Least(ks) == CHOOSE k \in ks : \A j \in ks : k <= j

\* the keys the nodes of a tree hold, and the number of its nodes
RECURSIVE KeysOf(_)
KeysOf(node) ==
  IF node = NULL THEN {}
  ELSE {Key(node)} \cup KeysOf(Left(node)) \cup KeysOf(Right(node))

RECURSIVE Nodes(_)
Nodes(node) ==
  IF node = NULL THEN 0 ELSE 1 + Nodes(Left(node)) + Nodes(Right(node))

RECURSIVE StrictBST(_)
StrictBST(node) ==
  \/ node = NULL
  \/ /\ \A k \in KeysOf(Left(node)) : k < Key(node)
     /\ \A k \in KeysOf(Right(node)) : k > Key(node)
     /\ StrictBST(Left(node))
     /\ StrictBST(Right(node))

\* C1: after any sequence of Insert and Remove calls, Size() is the sum of
\* Count(k) over the distinct keys k with Contains(k) true.
C1_SizeIsSumOfCounts == Size = SumOfCounts(S)

\* C2: Remove(key) of a contained key lowers Count(key) by exactly one
\* (Contains(key) becoming false when the count was 1), leaves Count and
\* Contains of every other key as they were, and lowers Size() by one.
C2_RemoveTakesOneOccurrence ==
  [][\A key \in QueryKeys :
       (op' = "Remove" /\ arg' = key /\ Contains(key)) =>
         /\ ~result'.thrown
         /\ IF Count(key).value = 1
              THEN ~Contains(key)'
              ELSE Contains(key)' /\ Count(key)'.value = Count(key).value - 1
         /\ \A k \in QueryKeys \ {key} :
              /\ Contains(k)' = Contains(k)
              /\ Count(k)' = Count(k)
         /\ Size' = Size - 1]_vars

\* C3: after any sequence of Insert and Remove calls the tree is a strict
\* binary search tree (left keys < node key < right keys at every node), so
\* no key is held by two nodes.
C3_StrictBinarySearchTree ==
  StrictBST(root) /\ Nodes(root) = Cardinality(KeysOf(root))

\* C4: Floor(q) returns the greatest k in S with k <= q, and fails if and
\* only if there is no such k (also when the multiset is empty).
C4_FloorIsGreatestKeyNotAbove ==
  op = "Floor" =>
    LET below == {k \in S : k <= arg} IN
      IF below = {} THEN result.thrown
      ELSE ~result.thrown /\ result.value = Greatest(below)

\* a Floor call answered by a key strictly below the query, in a tree where
\* the answer is neither the root nor the only node
C4_Witness ==
  /\ op = "Floor" /\ ~result.thrown /\ result.value < arg
  /\ result.value # Key(root)
  /\ Nodes(root) >= 3

\* C5: the public Ceil(q) returns the least k in S with k >= q, and fails
\* (raises an error instead of returning a value) if and only if there is
\* no such k, also when the multiset is empty.
C5_CeilIsLeastKeyNotBelow ==
  op = "Ceil" =>
    LET above == {k \in S : k >= arg} IN
      IF above = {} THEN result.thrown
      ELSE ~result.thrown /\ result.value = Least(above)

\* C6: Min() and Max() fail with the empty-structure error if and only if
\* Empty() is true.
C6_MinMaxFailIffEmpty ==
  op \in {"Min", "Max"} =>
    /\ result.thrown <=> Empty
    /\ result.thrown => result.what = "Empty multiset"

\* C7: Remove(key) of a key with Contains(key) false fails with the
\* key-not-found error and leaves the tree (shape, keys, counts) and Size()
\* as they were.
C7_FailedRemoveChangesNothing ==
  [][\A key \in QueryKeys :
       (op' = "Remove" /\ arg' = key /\ ~Contains(key)) =>
         /\ result'.thrown /\ result'.what = "No key"
         /\ root' = root
         /\ size' = size]_vars

\* a failed Remove on a multiset that holds other keys
C7_Witness ==
  /\ op = "Remove" /\ result.thrown /\ ~Contains(arg)
  /\ Nodes(root) >= 2 /\ size >= 2

\* C8: Insert(key) never fails, raises Count(key) by exactly one when the
\* key is contained or makes it 1 when it is not, raises Size() by exactly
\* one, and leaves Count and Contains of every other key as they were.
C8_InsertAddsOneOccurrence ==
  [][\A key \in Keys :
       (op' = "Insert" /\ arg' = key) =>
         /\ ~result'.thrown
         /\ Contains(key)'
         /\ Count(key)'.value = IF Contains(key) THEN Count(key).value + 1 ELSE 1
         /\ \A k \in QueryKeys \ {key} :
              /\ Contains(k)' = Contains(k)
              /\ Count(k)' = Count(k)
         /\ Size' = Size + 1]_vars

\* C9: Count(key) fails with the key-not-found error if and only if
\* Contains(key) is false; when it succeeds it returns at least 1.
C9_CountFailsIffAbsent ==
  op = "Count" =>
    /\ result.thrown <=> ~Contains(arg)
    /\ result.thrown => result.what = "No key"
    /\ ~result.thrown => result.value >= 1

\* a Count call that reads its answer from a node the successor case of
\* Remove has overwritten (its key is held again in its right subtree)
C9_Witness ==
  /\ op = "Count" /\ ~result.thrown /\ result.value >= 1
  /\ root # NULL /\ arg = Key(root)
  /\ ContainsNode(Right(root), arg) # NULL

\* C10: where Min()/Max() succeed, Min() returns the least key k with
\* Contains(k) true and Max() the greatest.
C10_MinMaxAreLeastAndGreatest ==
  /\ (op = "Min" /\ ~result.thrown) => result.value = Least(S)
  /\ (op = "Max" /\ ~result.thrown) => result.value = Greatest(S)

\* a Max call answered by a node other than the root in a tree of three keys
C10_Witness ==
  /\ op = "Max" /\ ~result.thrown /\ result.value # Key(root)
  /\ Cardinality(S) >= 3 /\ Least(S) # Key(root)

\* Count(k) as the object with root r would give it
CountIn(r, k) ==
  LET node == ContainsNode(r, k) IN
    IF node = NULL THEN Thrown("No key") ELSE Returned(Cnt(node))

\* C11: for a key k with Contains(k) false, Insert(k) followed at once by
\* Remove(k) restores Contains(k) = false and the Size() of before, and
\* leaves the Count of every other key as it was before the Insert.
C11_InsertThenRemoveRestores ==
  trip.stage = "removed" =>
    /\ op = "Remove" /\ arg = trip.key /\ ~result.thrown
    /\ ~Contains(trip.key)
    /\ Size = trip.size
    /\ \A k \in QueryKeys \ {trip.key} : Count(k) = CountIn(trip.root, k)

\* the round trip made on a multiset that holds a key twice in its tree
\* and has other keys than the one inserted and removed
C11_Witness ==
  /\ trip.stage = "removed"
  /\ Nodes(trip.root) >= 3
  /\ Nodes(trip.root) > Cardinality(KeysOf(trip.root))

\* the turns ("L", "R") the descent of Remove(Node*, const K&) takes from
\* node to the node it finds for key, and the node a sequence of turns
\* leads to
RECURSIVE PathTo(_, _)
PathTo(node, key) ==
  IF node = NULL THEN <<>>
  ELSE IF key < Key(node) THEN <<"L">> \o PathTo(Left(node), key)
  ELSE IF key > Key(node) THEN <<"R">> \o PathTo(Right(node), key)
  ELSE <<>>

RECURSIVE NodeAt(_, _)
NodeAt(node, path) ==
  IF path = <<>> THEN node
  ELSE IF Head(path) = "L" THEN NodeAt(Left(node), Tail(path))
  ELSE NodeAt(Right(node), Tail(path))

\* C12: when Remove deletes the last occurrence of a key whose node has a
\* left and a right child, the node takes the key and the count of its
\* in-order successor (the minimum of the right subtree) and the successor
\* is removed from the right subtree: afterwards no node of the right
\* subtree holds the successor's key, whatever the successor's count was.
C12_SuccessorLeavesRightSubtree ==
  [][\A key \in QueryKeys :
       LET n == ContainsNode(root, key) IN
         (/\ op' = "Remove" /\ arg' = key
          /\ n # NULL /\ Cnt(n) = 1 /\ Left(n) # NULL /\ Right(n) # NULL) =>
           LET succ == MinNode(Right(n))
               m == NodeAt(root', PathTo(root, key))
           IN  /\ Key(m) = Key(succ)
               /\ Cnt(m) = Cnt(succ)
               /\ Key(succ) \notin KeysOf(Right(m))]_vars

\* C14: the unsigned size counter never wraps: a Remove that succeeds is
\* only possible when Size() >= 1, so size-- never takes size below 0 (to
\* 2^w - 1).
C14_SizeNeverWraps ==
  [][(op' = "Remove" /\ ~result'.thrown) =>
       (Size >= 1 /\ Size' = Size - 1)]_vars

RECURSIVE CountsAtLeastOne(_)
CountsAtLeastOne(node) ==
  \/ node = NULL
  \/ /\ Cnt(node) >= 1
     /\ CountsAtLeastOne(Left(node))
     /\ CountsAtLeastOne(Right(node))

\* C15: every node of the tree has a stored count of at least 1 (a node
\* whose count would drop to 0 is removed instead, and a node overwritten
\* by its successor receives a count >= 1).
C15_EveryCountAtLeastOne == CountsAtLeastOne(root)

\* the tree right after a Remove that overwrote a node by its successor and
\* left the successor's key in the right subtree of that node
C15_Witness ==
  /\ op = "Remove" /\ ~result.thrown
  /\ root # NULL /\ Left(root) # NULL
  /\ ContainsNode(Right(root), Key(root)) # NULL

\* ---- the steps a call takes ----------------------------------------------
\* The operators ...Run follow the control flow of the member functions and
\* count its steps: a step is one activation of a recursive function or one
\* test of a loop condition.  Each is given the number of steps it may still
\* take and gives the number left over when the call has returned or thrown,
\* or -1 when the steps are used up and the call is still running.
RECURSIVE InsertRun(_, _, _)
InsertRun(node, key, fuel) ==
  IF fuel < 1 THEN -1
  ELSE IF node = NULL THEN fuel - 1
  ELSE IF key < Key(node) THEN InsertRun(Left(node), key, fuel - 1)
  ELSE IF key > Key(node) THEN InsertRun(Right(node), key, fuel - 1)
  ELSE fuel - 1

RECURSIVE ContainsRun(_, _, _)
ContainsRun(node, key, fuel) ==
  IF fuel < 1 THEN -1
  ELSE IF node = NULL THEN fuel - 1
  ELSE IF key < Key(node) THEN ContainsRun(Left(node), key, fuel - 1)
  ELSE IF key > Key(node) THEN ContainsRun(Right(node), key, fuel - 1)
  ELSE fuel - 1

RECURSIVE FloorRun(_, _, _)
FloorRun(node, key, fuel) ==
  IF fuel < 1 THEN -1
  ELSE IF node = NULL THEN fuel - 1
  ELSE IF key = Key(node) THEN fuel - 1
  ELSE IF key < Key(node) THEN FloorRun(Left(node), key, fuel - 1)
  ELSE FloorRun(Right(node), key, fuel - 1)

RECURSIVE CeilRun(_, _, _)
CeilRun(node, key, fuel) ==
  IF fuel < 1 THEN -1
  ELSE IF node = NULL THEN fuel - 1
  ELSE IF key = Key(node) THEN fuel - 1
  ELSE IF key > Key(node) THEN CeilRun(Right(node), key, fuel - 1)
  ELSE CeilRun(Left(node), key, fuel - 1)

\* while (node->right) node = node->right;
RECURSIVE MaxRun(_, _)
MaxRun(node, fuel) ==
  IF fuel < 1 THEN -1
  ELSE IF Right(node) # NULL THEN MaxRun(Right(node), fuel - 1)
  ELSE fuel - 1

\* while (node->left) node = node->left;
RECURSIVE MinRun(_, _)
MinRun(node, fuel) ==
  IF fuel < 1 THEN -1
  ELSE IF Left(node) # NULL THEN MinRun(Left(node), fuel - 1)
  ELSE fuel - 1

\* Remove(Node*, const K&) that removes the successor from the node itself,
\* Remove(node, min->key), after the node has taken the successor's key and
\* count
RECURSIVE RemoveRun_FromNodeItself(_, _, _)
RemoveRun_FromNodeItself(node, key, fuel) ==
  IF fuel < 1 THEN -1
  ELSE IF node = NULL THEN fuel - 1
  ELSE IF key < Key(node)
    THEN RemoveRun_FromNodeItself(Left(node), key, fuel - 1)
  ELSE IF key > Key(node)
    THEN RemoveRun_FromNodeItself(Right(node), key, fuel - 1)
  ELSE IF Cnt(node) > 1 THEN fuel - 1
  ELSE IF Left(node) = NULL THEN fuel - 1
  ELSE IF Right(node) = NULL THEN fuel - 1
  ELSE
    LET min == MinNode(Right(node))
        left == MinRun(Right(node), fuel - 1)
    IN  IF left < 0 THEN -1
        ELSE RemoveRun_FromNodeItself(
               Node(Key(min), Cnt(min), Left(node), Right(node)),
               Key(min), left)

RECURSIVE RemoveRun(_, _, _)
RemoveRun(node, key, fuel) ==
  IF fuel < 1 THEN -1
  ELSE IF node = NULL THEN fuel - 1
  ELSE IF key < Key(node) THEN RemoveRun(Left(node), key, fuel - 1)
  ELSE IF key > Key(node) THEN RemoveRun(Right(node), key, fuel - 1)
  ELSE IF Cnt(node) > 1 THEN fuel - 1
  ELSE IF Left(node) = NULL THEN fuel - 1
  ELSE IF Right(node) = NULL THEN fuel - 1
  ELSE
    LET min == MinNode(Right(node))
        left == MinRun(Right(node), fuel - 1)
    IN  IF left < 0 THEN -1
        ELSE RemoveRun(Right(node), Key(min), left)

\* the public member functions, on the current object
InsertCall(key, fuel) == InsertRun(root, key, fuel)
RemoveCall(key, fuel) ==
  LET left == ContainsRun(root, key, fuel) IN
    IF left < 0 THEN -1
    ELSE IF ~Contains(key) THEN left
    ELSE RemoveRun(root, key, left)
ContainsCall(key, fuel) == ContainsRun(root, key, fuel)
CountCall(key, fuel) == ContainsRun(root, key, fuel)
FloorCall(key, fuel) ==
  IF root = NULL THEN fuel ELSE FloorRun(root, key, fuel)
CeilCall(key, fuel) ==
  LET node == root IN
    IF node = NULL THEN fuel
    ELSE IF key = Key(node) THEN fuel
    ELSE IF key > Key(node) THEN CeilRun(Right(node), key, fuel)
    ELSE CeilRun(Left(node), key, fuel)
MaxCall(fuel) == IF root = NULL THEN fuel ELSE MaxRun(root, fuel)
MinCall(fuel) == IF root = NULL THEN fuel ELSE MinRun(root, fuel)

\* the number of nodes on the longest way down a tree
RECURSIVE Height(_)
Height(node) ==
  IF node = NULL THEN 0
  ELSE LET l == Height(Left(node))
           r == Height(Right(node))
       IN  1 + IF l > r THEN l ELSE r

\* steps allowed to a call: the lookup, the descent of Remove and the loop
\* of Min each go down the tree at most once
Budget == 3 * Height(root) + 3

\* C13: every public operation (Insert, Remove, Contains, Count, Floor,
\* Ceil, Min, Max) terminates, by returning or by failing, in every state
\* reachable by Insert and Remove calls, the recursive removal of the
\* successor inside Remove included: each call is over within Budget steps,
\* a number proportional to the height of the tree.
C13_EveryCallTerminates ==
  /\ \A key \in QueryKeys :
       /\ InsertCall(key, Budget) >= 0
       /\ RemoveCall(key, Budget) >= 0
       /\ ContainsCall(key, Budget) >= 0
       /\ CountCall(key, Budget) >= 0
       /\ FloorCall(key, Budget) >= 0
       /\ CeilCall(key, Budget) >= 0
  /\ MaxCall(Budget) >= 0
  /\ MinCall(Budget) >= 0

\* after a Remove, a tree that holds the key of its root twice (a successor
\* was copied and left behind) and whose root is again a last occurrence
\* with two children: Remove of that key runs the successor removal
C13_Witness ==
  /\ op = "Remove" /\ ~result.thrown
  /\ root # NULL /\ Cnt(root) = 1
  /\ Left(root) # NULL /\ Right(root) # NULL
  /\ ContainsNode(Right(root), Key(root)) # NULL
  /\ RemoveCall(Key(root), Budget) >= 0
====
